---- MODULE Spec2Model ----
(***************************************************************************)
(* State-machine model of the two tools of the repository:                 *)
(*   tools/AuthServer/AuthServer.py   (start-up script + two Flask routes) *)
(*   tools/Testing/android_test.py    (adb upload / run / parse)           *)
(* Text is modelled as a sequence of atoms: an atom is one special         *)
(* character or one run of alphanumeric characters.  A JSON object's text  *)
(* is modelled as the sequence of its "key": "value" entries, each with    *)
(* the information whether a comma follows it.                             *)
(***************************************************************************)
EXTENDS Integers, Sequences, FiniteSets, TLC

VARIABLES
    \* ---- AuthServer.py
    argv,                       \* sys.argv
    fs,                         \* the configuration file on disk: [kind, text]
    backendHasStop,             \* 'werkzeug.server.shutdown' is in request.environ
    pc,                         \* position of the start-up script
    configFilename,
    authDelegateDict,
    defaultRefreshTokenString,
    console,                    \* what the script printed
    netLog,                     \* requests.post calls made, with the status received
    exitCode,                   \* sys.exit status, Running while the process lives
    listener,                   \* app.run: "notStarted", "serving", "stopped"
    response,                   \* the HTTP response of the last handled request
    handled,                    \* number of HTTP requests handled
    memMutations,               \* history: assignments to authDelegateDict['refreshToken']
    fileWrites,                 \* history: times the file was opened for writing and written
    last,                       \* history: the last handled request and the state before it
    \* ---- android_test.py
    rpc,                        \* position of the test-runner script
    args,                       \* parsed command line: name, source, device_path, inputs
    existing,                   \* local paths for which path.exists is true
    ret,                        \* process_inputs: the list built so far
    idx,                        \* process_inputs: loop position
    inputsArg,                  \* run_test: the joined argument string
    adbLog,                     \* adb commands issued, in order
    output,                     \* check_output result of the remote run
    printed,                    \* what parse_output printed
    rexit                       \* exit status of the runner, Running while it lives

authVars == <<argv, fs, backendHasStop, pc, configFilename, authDelegateDict,
              defaultRefreshTokenString, console, netLog, exitCode, listener,
              response, handled, memMutations, fileWrites, last>>
runnerVars == <<rpc, args, existing, ret, idx, inputsArg, adbLog, output, printed, rexit>>
vars == <<authVars, runnerVars>>

\* ------------------------------------------------------------------ bounds
MaxRequests == 3
MaxInputs == 2
MaxOutputLen == 5

\* ------------------------------------------------------------- common text
Running == 0 - 1
Unset == <<"<unset>">>
NoDict == [k \in {"<unset>"} |-> Unset]

Contains(s, sub) ==
    \E i \in 0..(Len(s) - Len(sub)) : SubSeq(s, i + 1, i + Len(sub)) = sub

\* =========================================================================
\*                              AuthServer.py
\* =========================================================================
redirectUri == <<"http", ":", "/", "/", "localhost", ":", "3000", "/", "authresponse">>
authDelegateKey == "authDelegate"
amazonLwaApiUrl == "https://api.amazon.com/auth/o2/token"
defaultConfigFilename == "${SDK_CONFIG_FILE_TARGET}"
CLIENT_ID == "clientId"
CLIENT_SECRET == "clientSecret"
PRODUCT_ID == "productId"
DEVICE_SERIAL_NUMBER == "deviceSerialNumber"
REFRESH_TOKEN == "refreshToken"
requiredKeys == <<CLIENT_ID, CLIENT_SECRET, PRODUCT_ID, DEVICE_SERIAL_NUMBER>>
HTTP_OK == 200
\* status codes the token endpoint answers with: success, or a rejection
StatusCodes == {HTTP_OK, 400}

\* str(status_code)
Str(n) == CASE n = 200 -> "200" [] n = 400 -> "400" [] n = 302 -> "302" [] OTHER -> "?"

\* json.load of an object's text: a dict; a repeated key keeps its last value.
ParseObject(text) ==
    LET keys == {text[i].key : i \in DOMAIN text}
        lastAt(k) == CHOOSE i \in DOMAIN text :
                        /\ text[i].key = k
                        /\ \A j \in DOMAIN text : text[j].key = k => j <= i
    IN [k \in keys |-> text[lastAt(k)].val]

has_key(dict, k) == k \in DOMAIN dict

\* urllib.quote_plus, atom by atom: alphanumeric runs stay, a space becomes
\* '+', every other character becomes its %XX escape.
QuoteCharKeepPlus(c) ==
    CASE c = " " -> "+"
      [] c = "{" -> "%7B"
      [] c = "}" -> "%7D"
      [] c = "\"" -> "%22"
      [] c = ":" -> "%3A"
      [] c = "/" -> "%2F"
      [] c = "|" -> "%7C"
      [] c = "," -> "%2C"
      [] OTHER -> c
QuoteChar(c) ==
    CASE c = " " -> "+"
      [] c = "+" -> "%2B"
      [] c = "{" -> "%7B"
      [] c = "}" -> "%7D"
      [] c = "\"" -> "%22"
      [] c = ":" -> "%3A"
      [] c = "/" -> "%2F"
      [] c = "|" -> "%7C"
      [] c = "," -> "%2C"
      [] OTHER -> c
quote_plus(s) == [i \in DOMAIN s |-> QuoteChar(s[i])]

\* urllib.urlencode of a dict: the k=v pairs, each value quoted (the keys used
\* here need no quoting; the order of the pairs is the dict's).
urlencode(dict) == [k \in DOMAIN dict |-> quote_plus(dict[k])]

\* What the receiver of a query string does with a value (the inverse mapping).
UnquoteChar(c) ==
    CASE c = "+" -> " "
      [] c = "%2B" -> "+"
      [] c = "%7B" -> "{"
      [] c = "%7D" -> "}"
      [] c = "%22" -> "\""
      [] c = "%3A" -> ":"
      [] c = "%2F" -> "/"
      [] c = "%7C" -> "|"
      [] c = "%2C" -> ","
      [] OTHER -> c
unquote_plus(s) == [i \in DOMAIN s |-> UnquoteChar(s[i])]

\* ---- the inputs of a run
ClientIds == {<<"amzn1">>}
ClientSecrets == {<<"s3cret">>}
ProductIds == {<<"Speaker">>, <<"my", "+", "dev">>}
SerialNumbers == {<<"123">>, <<"12", " ", "3">>}
OldTokens == {<<"Atzr", "|", "old">>}
NewTokens == {<<"Atzr", "|", "new">>, <<"Atzr", "|", "old">>}
Codes == {<<"ANcode">>}

ValuesOf(k) ==
    CASE k = CLIENT_ID -> ClientIds
      [] k = CLIENT_SECRET -> ClientSecrets
      [] k = PRODUCT_ID -> ProductIds
      [] k = DEVICE_SERIAL_NUMBER -> SerialNumbers
      [] OTHER -> OldTokens

InsertAt(s, p, x) == SubSeq(s, 1, p) \o <<x>> \o SubSeq(s, p + 1, Len(s))

\* Key orders of an authDelegate object: any subset of the required keys, in
\* the order of requiredKeys, with refreshToken absent or at any position.
KeyOrders ==
    LET base(S) == SelectSeq(requiredKeys, LAMBDA k : k \in S)
    IN UNION {{base(S)} \cup {InsertAt(base(S), p, REFRESH_TOKEN) : p \in 0..Len(base(S))} :
                S \in SUBSET {requiredKeys[i] : i \in 1..4}}

\* Well-formed JSON: a comma follows every entry but the last.
ObjectTexts ==
    UNION {{[i \in 1..Len(ks) |-> [key |-> ks[i], val |-> v[i], comma |-> i < Len(ks)]] :
              v \in {w \in [1..Len(ks) -> ClientIds \cup ClientSecrets \cup ProductIds
                                          \cup SerialNumbers \cup OldTokens] :
                        \A i \in 1..Len(ks) : w[i] \in ValuesOf(ks[i])}} :
           ks \in KeyOrders}

ConfigFiles ==
    {[kind |-> "missing", text |-> <<>>],
     [kind |-> "malformed", text |-> <<>>],
     [kind |-> "nosection", text |-> <<>>]}
    \cup {[kind |-> "ok", text |-> t] : t \in ObjectTexts}

\* The token endpoint's answers to the authorization_code exchange.
ProviderResponses ==
    {[status_code |-> 400,
      text |-> <<[key |-> "error", val |-> <<"invalid_grant">>, comma |-> FALSE]>>],
     [status_code |-> HTTP_OK,
      text |-> <<[key |-> "access_token", val |-> <<"Atza">>, comma |-> FALSE]>>]}
    \cup {[status_code |-> HTTP_OK,
           text |-> <<[key |-> "access_token", val |-> <<"Atza">>, comma |-> TRUE],
                      [key |-> "refresh_token", val |-> t, comma |-> FALSE]>>] :
            t \in NewTokens}

NoRequest == [route |-> "none", outcome |-> "none", shutdown |-> FALSE,
              token |-> Unset, fileBefore |-> [kind |-> "missing", text |-> <<>>],
              dictBefore |-> NoDict, writesBefore |-> 0, mutationsBefore |-> 0,
              provider |-> [status_code |-> 0, text |-> <<>>]]
NoResponse == [status |-> 0, location |-> <<>>, body |-> <<>>]

AuthInit ==
    /\ argv \in {<<"AuthServer.py">>, <<"AuthServer.py", "cfg.json">>}
    /\ fs \in ConfigFiles
    /\ backendHasStop \in BOOLEAN
    /\ pc = "start"
    /\ configFilename = "<unset>"
    /\ authDelegateDict = NoDict
    /\ defaultRefreshTokenString = Unset
    /\ console = <<>>
    /\ netLog = <<>>
    /\ exitCode = Running
    /\ listener = "notStarted"
    /\ response = NoResponse
    /\ handled = 0
    /\ memMutations = 0
    /\ fileWrites = 0
    /\ last = NoRequest

\* sys.exit(status) after printing msg
Exit(status, msg) ==
    /\ console' = Append(console, msg)
    /\ exitCode' = status
    /\ pc' = "exited"

\* lines 59-72: choose the file name, check that the file exists
ResolveConfigFile ==
    /\ pc = "start"
    /\ configFilename' = IF 2 = Len(argv) THEN argv[2] ELSE defaultConfigFilename
    /\ IF fs.kind = "missing"
       THEN Exit(1, [kind |-> "ConfigNotFound", key |-> "-"])
       ELSE /\ pc' = "load"
            /\ UNCHANGED <<console, exitCode>>
    /\ UNCHANGED <<runnerVars, argv, fs, backendHasStop, authDelegateDict, defaultRefreshTokenString,
                   netLog, listener, response, handled, memMutations, fileWrites, last>>

\* lines 74-91: open and parse the file, take the authDelegate object
LoadConfig ==
    /\ pc = "load"
    /\ \E canOpen \in BOOLEAN :
         IF ~canOpen
         THEN /\ Exit(1, [kind |-> "ConfigNotFound", key |-> "-"])
              /\ UNCHANGED authDelegateDict
         ELSE IF fs.kind = "malformed"
         THEN /\ Exit(1, [kind |-> "ConfigParseError", key |-> "-"])
              /\ UNCHANGED authDelegateDict
         ELSE IF fs.kind = "nosection"
         THEN /\ Exit(1, [kind |-> "MissingSection", key |-> authDelegateKey])
              /\ UNCHANGED authDelegateDict
         ELSE /\ authDelegateDict' = ParseObject(fs.text)
              /\ pc' = "checkKeys"
              /\ UNCHANGED <<console, exitCode>>
    /\ UNCHANGED <<runnerVars, argv, fs, backendHasStop, configFilename, defaultRefreshTokenString,
                   netLog, listener, response, handled, memMutations, fileWrites, last>>

\* map(authDelegateDict.has_key, requiredKeys).index(False), or 0 for ValueError
IndexOfLastFalse(dict) ==
    LET miss == {i \in 1..Len(requiredKeys) : ~has_key(dict, requiredKeys[i])}
    IN IF miss = {} THEN 0 ELSE CHOOSE i \in miss : \A j \in miss : j <= i
IndexOfFalse(dict) ==
    LET miss == {i \in 1..Len(requiredKeys) : ~has_key(dict, requiredKeys[i])}
    IN IF miss = {} THEN 0 ELSE CHOOSE i \in miss : \A j \in miss : i <= j

\* lines 94-103: all required keys are present, or exit naming a missing one
CheckRequiredKeys ==
    /\ pc = "checkKeys"
    /\ LET i == IndexOfFalse(authDelegateDict)
       IN IF i # 0
          THEN Exit(1, [kind |-> "MissingKey", key |-> requiredKeys[i]])
          ELSE /\ pc' = "checkRefresh"
               /\ UNCHANGED <<console, exitCode>>
    /\ UNCHANGED <<runnerVars, argv, fs, backendHasStop, configFilename, authDelegateDict,
                   defaultRefreshTokenString, netLog, listener, response, handled,
                   memMutations, fileWrites, last>>

\* line 117: 200 == tokenRefreshRequest.status_code
RefreshAcceptedNever(status) == FALSE
RefreshAccepted(status) == HTTP_OK = status

\* lines 105-127: try the refresh token of the file
CheckRefreshToken ==
    /\ pc = "checkRefresh"
    /\ IF has_key(authDelegateDict, REFRESH_TOKEN)
       THEN \E status \in StatusCodes :
              /\ netLog' = Append(netLog,
                     [url |-> amazonLwaApiUrl,
                      data |-> urlencode(
                         [grant_type |-> <<"refresh_token">>,
                          refresh_token |-> authDelegateDict[REFRESH_TOKEN],
                          client_id |-> authDelegateDict[CLIENT_ID],
                          client_secret |-> authDelegateDict[CLIENT_SECRET]]),
                      status |-> status])
              /\ defaultRefreshTokenString' = authDelegateDict[REFRESH_TOKEN]
              /\ IF RefreshAccepted(status)
                 THEN Exit(0, [kind |-> "AlreadyAuthorized", key |-> "-"])
                 ELSE /\ console' = Append(console,
                                      [kind |-> "RefreshFailed", key |-> Str(status)])
                      /\ pc' = "run"
                      /\ UNCHANGED exitCode
       ELSE /\ Exit(0, [kind |-> "MissingKey", key |-> REFRESH_TOKEN])
            /\ UNCHANGED <<netLog, defaultRefreshTokenString>>
    /\ UNCHANGED <<runnerVars, argv, fs, backendHasStop, configFilename, authDelegateDict, listener,
                   response, handled, memMutations, fileWrites, last>>

\* line 194: app.run(host='127.0.0.1', port=3000)
AppRun ==
    /\ pc = "run"
    /\ pc' = "serving"
    /\ listener' = "serving"
    /\ UNCHANGED <<runnerVars, argv, fs, backendHasStop, configFilename, authDelegateDict,
                   defaultRefreshTokenString, console, netLog, exitCode, response,
                   handled, memMutations, fileWrites, last>>

\* lines 27-33: the message shutdown() returns, and whether func() was called
shutdownNeverStops == [msg |-> "You can close this window and terminate the script.",
                       stop |-> FALSE]
shutdown ==
    IF ~backendHasStop
    THEN [msg |-> "You can close this window and terminate the script.",
          stop |-> FALSE]
    ELSE [msg |-> "Server is shutting down, so you can close this window.",
          stop |-> TRUE]

\* lines 131-136: the scope_data text
scopeData(productId, deviceSerialNumber) ==
    <<"{", "\"", "alexa", ":", "all", "\"", ":", "{", "\"", "productID", "\"", ":", "\"">>
    \o productId
    \o <<"\"", ",", "\"", "productInstanceAttributes", "\"", ":", "{", "\"",
         "deviceSerialNumber", "\"", ":", "\"">>
    \o deviceSerialNumber
    \o <<"\"", "}", "}", "}">>

NoPage == [page |-> "-", status_code |-> "-", text |-> <<>>, filename |-> "-",
           shutdown |-> "-"]

\* lines 129-144: GET /
index ==
    /\ listener = "serving"
    /\ handled < MaxRequests
    /\ response' =
         [status |-> 302,
          location |->
             [base |-> "https://www.amazon.com/ap/oa/",
              query |-> urlencode(
                 [scope |-> <<"alexa", ":", "all">>,
                  scope_data |-> scopeData(authDelegateDict[PRODUCT_ID],
                                           authDelegateDict[DEVICE_SERIAL_NUMBER]),
                  client_id |-> authDelegateDict[CLIENT_ID],
                  response_type |-> <<"code">>,
                  redirect_uri |-> redirectUri])],
          body |-> NoPage]
    /\ handled' = handled + 1
    /\ last' = [route |-> "/", outcome |-> "Redirected", shutdown |-> FALSE,
                token |-> Unset, fileBefore |-> fs, dictBefore |-> authDelegateDict,
                writesBefore |-> fileWrites, mutationsBefore |-> memMutations,
                provider |-> [status_code |-> 0, text |-> <<>>]]
    /\ UNCHANGED <<runnerVars, argv, fs, backendHasStop, pc, configFilename, authDelegateDict,
                   defaultRefreshTokenString, console, netLog, exitCode, listener,
                   memMutations, fileWrites>>

\* lines 161-165: the page returned when LWA sent no refresh token
ExchangeFailedPageNoText(tokenRequest, shutdownMsg) ==
    [page |-> "LWA did not return a refresh token",
     status_code |-> Str(tokenRequest.status_code),
     text |-> <<>>,
     filename |-> "-",
     shutdown |-> shutdownMsg]
ExchangeFailedPage(tokenRequest, shutdownMsg) ==
    [page |-> "LWA did not return a refresh token",
     status_code |-> Str(tokenRequest.status_code),
     text |-> tokenRequest.text,
     filename |-> "-",
     shutdown |-> shutdownMsg]

\* lines 171-175 and 182-186: the page returned when the file cannot be opened
CannotOpenPage(shutdownMsg) ==
    [page |-> "The file cannot be opened", status_code |-> "-", text |-> <<>>,
     filename |-> configFilename, shutdown |-> shutdownMsg]

\* line 192: the page returned after the write
WrittenPage(shutdownMsg) ==
    [page |-> "The file is written successfully", status_code |-> "-", text |-> <<>>,
     filename |-> "-", shutdown |-> shutdownMsg]

\* lines 187-190: re.sub(stringToFind, replaceWith, fileContent).  stringToFind
\* matches (with optional white space) "refreshToken" : "<old>" followed by a
\* comma; every match becomes "refreshToken":"<new>", with the comma.
re_sub(old, new, fileContent) ==
    [i \in DOMAIN fileContent |->
        IF /\ fileContent[i].key = REFRESH_TOKEN
           /\ fileContent[i].val = old
           /\ fileContent[i].comma
        THEN [key |-> REFRESH_TOKEN, val |-> new, comma |-> TRUE]
        ELSE fileContent[i]]

\* lines 146-192: GET /authresponse?code=...
get_refresh_token ==
    /\ listener = "serving"
    /\ handled < MaxRequests
    /\ \E code \in Codes, tokenRequest \in ProviderResponses, canRead, canWrite \in BOOLEAN :
         LET json == ParseObject(tokenRequest.text)
             sd == shutdown
             before == [route |-> "/authresponse", outcome |-> "-", shutdown |-> TRUE,
                        token |-> Unset, fileBefore |-> fs,
                        dictBefore |-> authDelegateDict, writesBefore |-> fileWrites,
                        mutationsBefore |-> memMutations,
                        provider |-> tokenRequest]
         IN
         /\ netLog' = Append(netLog,
                [url |-> amazonLwaApiUrl,
                 data |-> urlencode(
                    [grant_type |-> <<"authorization_code">>,
                     code |-> code,
                     client_id |-> authDelegateDict[CLIENT_ID],
                     client_secret |-> authDelegateDict[CLIENT_SECRET],
                     redirect_uri |-> redirectUri]),
                 status |-> tokenRequest.status_code])
         /\ IF ~has_key(json, "refresh_token")
            THEN /\ response' = [status |-> HTTP_OK, location |-> <<>>,
                                 body |-> ExchangeFailedPage(tokenRequest, sd.msg)]
                 /\ last' = [before EXCEPT !.outcome = "TokenExchangeFailed"]
                 /\ UNCHANGED <<authDelegateDict, memMutations, fs, fileWrites, console>>
            ELSE /\ authDelegateDict' =
                       [k \in DOMAIN authDelegateDict \cup {REFRESH_TOKEN} |->
                           IF k = REFRESH_TOKEN THEN json["refresh_token"]
                           ELSE authDelegateDict[k]]
                 /\ memMutations' = memMutations + 1
                 /\ IF ~canRead \/ ~canWrite
                    THEN /\ console' = Append(console,
                                          [kind |-> "CannotOpen", key |-> configFilename])
                         /\ response' = [status |-> HTTP_OK, location |-> <<>>,
                                         body |-> CannotOpenPage(sd.msg)]
                         /\ last' = [before EXCEPT !.outcome = "PersistFailed",
                                                   !.token = json["refresh_token"]]
                         /\ UNCHANGED <<fs, fileWrites>>
                    ELSE /\ fs' = [fs EXCEPT !.text =
                                      re_sub(defaultRefreshTokenString,
                                             json["refresh_token"], fs.text)]
                         /\ fileWrites' = fileWrites + 1
                         /\ response' = [status |-> HTTP_OK, location |-> <<>>,
                                         body |-> WrittenPage(sd.msg)]
                         /\ last' = [before EXCEPT !.outcome = "TokenPersisted",
                                                   !.token = json["refresh_token"]]
                         /\ UNCHANGED console
         /\ handled' = handled + 1
         /\ IF sd.stop
            THEN /\ listener' = "stopped"
                 /\ pc' = "exited"
                 /\ exitCode' = 0
            ELSE UNCHANGED <<listener, pc, exitCode>>
    /\ UNCHANGED <<runnerVars, argv, backendHasStop, configFilename, defaultRefreshTokenString>>

AuthNext ==
    \/ ResolveConfigFile
    \/ LoadConfig
    \/ CheckRequiredKeys
    \/ CheckRefreshToken
    \/ AppRun
    \/ index
    \/ get_refresh_token

\* =========================================================================
\*                             android_test.py
\* =========================================================================
SEPARATOR == "/"

\* string.join(words, sep)
RECURSIVE Join(_, _)
Join(words, sep) ==
    IF words = <<>> THEN <<>>
    ELSE IF Len(words) = 1 THEN words[1]
    ELSE words[1] \o <<sep>> \o Join(Tail(words), sep)

\* str.split(): the words between runs of white space
RECURSIVE Split(_)
Split(s) ==
    IF s = <<>> THEN <<>>
    ELSE IF Head(s) = " " THEN Split(Tail(s))
    ELSE LET stops == {i \in 1..Len(s) : s[i] = " "}
             n == IF stops = {} THEN Len(s) + 1
                  ELSE CHOOSE i \in stops : \A j \in stops : i <= j
         IN <<SubSeq(s, 1, n - 1)>> \o Split(SubSeq(s, n, Len(s)))

\* str.splitlines()
RECURSIVE splitlines(_)
splitlines(s) ==
    IF s = <<>> THEN <<>>
    ELSE LET stops == {i \in 1..Len(s) : s[i] = "\n"}
         IN IF stops = {} THEN <<s>>
            ELSE LET n == CHOOSE i \in stops : \A j \in stops : i <= j
                 IN <<SubSeq(s, 1, n - 1)>> \o splitlines(SubSeq(s, n + 1, Len(s)))

\* os.path.basename: what follows the last separator
basename(p) ==
    LET seps == {i \in 1..Len(p) : p[i] = SEPARATOR}
        n == IF seps = {} THEN 0 ELSE CHOOSE i \in seps : \A j \in seps : j <= i
    IN SubSeq(p, n + 1, Len(p))

\* os.path.exists
exists(p) == p \in existing

\* int(text): the digits, with an optional sign; NotAnInt for ValueError
Digits == {"0", "1"}
DigitValue(d) == IF d = "1" THEN 1 ELSE 0
IsInt(line) ==
    LET body == IF line # <<>> /\ Head(line) = "-" THEN Tail(line) ELSE line
    IN body # <<>> /\ \A i \in DOMAIN body : body[i] \in Digits
RECURSIVE Decimal(_)
Decimal(ds) ==
    IF ds = <<>> THEN 0
    ELSE 10 * Decimal(SubSeq(ds, 1, Len(ds) - 1)) + DigitValue(ds[Len(ds)])
int(line) == IF Head(line) = "-" THEN 0 - Decimal(Tail(line)) ELSE Decimal(line)

\* lines 28-31: the folders of run_test
lib_folder == Join(<<args.device_path, <<"lib">>>>, SEPARATOR)
test_folder == Join(<<args.device_path, <<"test">>>>, SEPARATOR)
input_folder == Join(<<args.device_path, <<"input">>>>, SEPARATOR)
test_path == Join(<<test_folder, args.name>>, SEPARATOR)

\* ---- the inputs of a run
InputTokens == {<<"--flag">>, <<".", "/", "localfile.txt">>, <<"data", "/", "set", "/">>,
                <<"my", " ", "file.txt">>}
RECURSIVE SeqsUpTo(_, _)
SeqsUpTo(S, n) ==
    IF n = 0 THEN {<<>>}
    ELSE LET shorter == SeqsUpTo(S, n - 1)
         IN shorter \cup {Append(q, x) : q \in {r \in shorter : Len(r) = n - 1}, x \in S}
OutputAtoms == {"a", "0", "1", "-", "\n"}
Outputs == SeqsUpTo(OutputAtoms, MaxOutputLen)
SampleOutputs == {<<"hello", "\n", "world", "\n", "0">>, <<"0", "\n">>,
                  <<"FAILED", "\n", "1">>, <<"abc">>}

RunnerIdle ==
    /\ rpc = "idle"
    /\ args = [name |-> <<>>, source |-> <<>>, device_path |-> <<>>, inputs |-> <<>>]
    /\ existing = {}
    /\ ret = <<>>
    /\ idx = 0
    /\ inputsArg = Unset
    /\ adbLog = <<>>
    /\ output = Unset
    /\ printed = Unset
    /\ rexit = Running

AuthIdle ==
    /\ argv = <<>>
    /\ fs = [kind |-> "missing", text |-> <<>>]
    /\ backendHasStop = FALSE
    /\ pc = "idle"
    /\ configFilename = "<unset>"
    /\ authDelegateDict = NoDict
    /\ defaultRefreshTokenString = Unset
    /\ console = <<>>
    /\ netLog = <<>>
    /\ exitCode = Running
    /\ listener = "notStarted"
    /\ response = NoResponse
    /\ handled = 0
    /\ memMutations = 0
    /\ fileWrites = 0
    /\ last = NoRequest

\* lines 57-80, 108-110: the parsed command line
RunnerInit ==
    /\ rpc = "mkdirTest"
    /\ args \in [name : {<<"UnitTest">>},
                 source : {<<"build", "/", "UnitTest">>},
                 device_path : {<<"/", "data", "/", "local">>},
                 inputs : SeqsUpTo(InputTokens, MaxInputs)]
    /\ existing \in SUBSET (InputTokens \ {<<"--flag">>})
    /\ ret = <<>>
    /\ idx = 0
    /\ inputsArg = Unset
    /\ adbLog = <<>>
    /\ output = Unset
    /\ printed = Unset
    /\ rexit = Running

\* subprocess.check_call / check_output raise CalledProcessError on this
CalledProcessErrorNever(status) == FALSE
CalledProcessError(status) == status # 0

\* one blocking adb command: it is issued, and a non-zero status aborts the script
Adb(command, status, next) ==
    /\ adbLog' = Append(adbLog, [argv |-> command, status |-> status])
    /\ IF CalledProcessError(status)
       THEN /\ rpc' = "aborted"
            /\ rexit' = 1
       ELSE /\ rpc' = next
            /\ UNCHANGED rexit

\* lines 34-35
MkdirTestFolder ==
    /\ rpc = "mkdirTest"
    /\ \E status \in {0, 1} :
         Adb(Split(<<"adb", " ", "shell", " ", "mkdir", " ", "-p", " ">> \o test_folder),
             status, "mkdirInput")
    /\ UNCHANGED <<authVars, args, existing, ret, idx, inputsArg, output, printed>>

\* lines 36-37
MkdirInputFolder ==
    /\ rpc = "mkdirInput"
    /\ \E status \in {0, 1} :
         Adb(Split(<<"adb", " ", "shell", " ", "mkdir", " ", "-p", " ">> \o input_folder),
             status, "pushTest")
    /\ UNCHANGED <<authVars, args, existing, ret, idx, inputsArg, output, printed>>

\* lines 38-39
PushTest ==
    /\ rpc = "pushTest"
    /\ \E status \in {0, 1} :
         Adb(Split(<<"adb", " ", "push", " ">> \o args.source \o <<" ">> \o test_folder),
             status, "processInputs")
    /\ UNCHANGED <<authVars, args, existing, ret, idx, inputsArg, output, printed>>

\* lines 90-98: one iteration of the loop of process_inputs
process_inputs_step ==
    /\ rpc = "processInputs"
    /\ idx < Len(args.inputs)
    /\ LET toProcess == args.inputs[idx + 1]
       IN IF exists(toProcess)
          THEN \E status \in {0, 1} :
                 /\ Adb(Split(<<"adb", " ", "push", " ">> \o toProcess \o <<" ">>
                              \o input_folder),
                        status, "processInputs")
                 /\ IF CalledProcessError(status)
                    THEN UNCHANGED <<ret, idx>>
                    ELSE /\ ret' = Append(ret, Join(<<input_folder, basename(toProcess)>>,
                                                    SEPARATOR))
                         /\ idx' = idx + 1
          ELSE /\ ret' = Append(ret, toProcess)
               /\ idx' = idx + 1
               /\ UNCHANGED <<adbLog, rpc, rexit>>
    /\ UNCHANGED <<authVars, args, existing, inputsArg, output, printed>>

\* line 99 and line 42: the joined list is the result of process_inputs
process_inputs_return ==
    /\ rpc = "processInputs"
    /\ idx = Len(args.inputs)
    /\ inputsArg' = Join(ret, " ")
    /\ rpc' = "runRemote"
    /\ UNCHANGED <<authVars, args, existing, ret, idx, adbLog, output, printed, rexit>>

\* lines 45-54: the remote run; its output is what the device prints
RemoteCommand ==
    <<<<"adb">>, <<"shell">>,
      <<"cd", " ">> \o test_folder \o <<";">>,
      <<"export", " ", "LD_LIBRARY_PATH", "=">> \o lib_folder \o <<";">>,
      test_path \o <<" ">> \o inputsArg \o <<";">>,
      <<"echo", " ", "$?">>>>

RunRemote ==
    /\ rpc = "runRemote"
    /\ \E status \in {0, 1} :
         /\ Adb(RemoteCommand, status, "parse")
         /\ IF CalledProcessError(status)
            THEN UNCHANGED output
            ELSE \E out \in SampleOutputs : output' = out
    /\ UNCHANGED <<authVars, args, existing, ret, idx, inputsArg, printed>>

\* line 105: the lines that are printed
PrintedLinesAll(lines) == lines
PrintedLines(lines) == SubSeq(lines, 1, Len(lines) - 1)

\* lines 102-106 and 111-112: print the output, exit with the value of the last
\* line; an uncaught IndexError or ValueError ends the script with status 1
parse_output ==
    /\ rpc = "parse"
    /\ LET lines == splitlines(output)
       IN /\ printed' = Join(PrintedLines(lines), "\n")
          /\ IF lines # <<>> /\ IsInt(lines[Len(lines)])
             THEN /\ rexit' = int(lines[Len(lines)])
                  /\ rpc' = "done"
             ELSE /\ rexit' = 1
                  /\ rpc' = "raised"
    /\ UNCHANGED <<authVars, args, existing, ret, idx, inputsArg, adbLog, output>>

RunnerNext ==
    \/ MkdirTestFolder
    \/ MkdirInputFolder
    \/ PushTest
    \/ process_inputs_step
    \/ process_inputs_return
    \/ RunRemote
    \/ parse_output

\* parse_output on every output of the bounded alphabet
ParseInit ==
    /\ rpc = "parse"
    /\ args = [name |-> <<"UnitTest">>, source |-> <<"build", "/", "UnitTest">>,
               device_path |-> <<"/", "data", "/", "local">>, inputs |-> <<>>]
    /\ existing = {}
    /\ ret = <<>>
    /\ idx = 0
    /\ inputsArg = <<>>
    /\ adbLog = <<>>
    /\ output \in Outputs
    /\ printed = Unset
    /\ rexit = Running

\* =========================================================================
\*                                 claims
\* =========================================================================
RequiredKeySet == {requiredKeys[i] : i \in 1..Len(requiredKeys)}
KeyIndex(k) == CHOOSE i \in 1..Len(requiredKeys) : requiredKeys[i] = k
ConfigLoaded == authDelegateDict # NoDict
MissingKeys == RequiredKeySet \ DOMAIN ParseObject(fs.text)
Fields(file) == ParseObject(file.text)

\* ---- C1
MissingKeysCase == ConfigLoaded /\ pc # "checkKeys" /\ MissingKeys # {}

ValidConfig == ConfigLoaded /\ MissingKeys = {} /\ pc \notin {"checkKeys", "checkRefresh"}
TokenAbsent == ValidConfig /\ ~has_key(authDelegateDict, REFRESH_TOKEN)
TokenRejected ==
    /\ ValidConfig
    /\ netLog # <<>>
    /\ netLog[1].data.grant_type = <<"refresh_token">>
    /\ netLog[1].status # HTTP_OK
ReachesServing == pc = "run" \/ listener # "notStarted"
RedirectIsRight ==
    /\ response.status = 302
    /\ LET query == response.location.query
           payload == unquote_plus(query.scope_data)
       IN /\ query.response_type = <<"code">>
          /\ unquote_plus(query.client_id) = Fields(fs)[CLIENT_ID]
          /\ Contains(payload, <<"\"", "productID", "\"", ":", "\"">>
                               \o Fields(fs)[PRODUCT_ID] \o <<"\"">>)
          /\ Contains(payload, <<"\"", "deviceSerialNumber", "\"", ":", "\"">>
                               \o Fields(fs)[DEVICE_SERIAL_NUMBER] \o <<"\"">>)

C3_TokenPersistedInFile ==
    (last.route = "/authresponse" /\ last.outcome = "TokenPersisted") =>
        /\ response.body.page = "The file is written successfully"
        /\ has_key(Fields(fs), REFRESH_TOKEN)
        /\ Fields(fs)[REFRESH_TOKEN] = last.token
        /\ \A k \in (DOMAIN Fields(last.fileBefore)) \ {REFRESH_TOKEN} :
              has_key(Fields(fs), k) /\ Fields(fs)[k] = Fields(last.fileBefore)[k]

TokenAccepted ==
    /\ netLog # <<>>
    /\ netLog[1].data.grant_type = <<"refresh_token">>
    /\ netLog[1].status = HTTP_OK

\* C5: when the refresh request of start-up is answered with 200, the process
\* exits with status 0, the listener is never started, no handler runs and the
\* file is never written.
C5_ValidTokenExitsZero ==
    TokenAccepted =>
        /\ pc = "exited"
        /\ exitCode = 0
        /\ listener = "notStarted"
        /\ handled = 0
        /\ last.route = "none"
        /\ fileWrites = 0
        /\ memMutations = 0
        /\ Len(netLog) = 1

C5_Witness == TokenAccepted /\ exitCode = 0

\* ---- C6
\* C6: in one run authDelegateDict['refreshToken'] is assigned at most once and
\* the file is written at most once, also when the backend offers no
\* programmatic stop and further requests arrive.
C6_MutatedAndWrittenAtMostOnce ==
    /\ memMutations <= 1
    /\ fileWrites <= 1

InputFolderPath == args.device_path \o <<"/", "input">>
\* r is the remote input directory + '/' + the last component of p
IsRemoteCopy(r, p) ==
    \E n \in 0..Len(p) :
        /\ n = 0 \/ p[n] = "/"
        /\ \A j \in (n + 1)..Len(p) : p[j] # "/"
        /\ r = InputFolderPath \o <<"/">> \o SubSeq(p, n + 1, Len(p))
IsInputPush(entry) ==
    /\ entry.argv[2] = <<"push">>
    /\ entry.argv[Len(entry.argv)] = InputFolderPath
ProcessedInputs == SubSeq(args.inputs, 1, Len(ret))
ExistingProcessed == SelectSeq(ProcessedInputs, LAMBDA p : p \in existing)
SucceededInputPushes ==
    SelectSeq(adbLog, LAMBDA e : IsInputPush(e) /\ e.status = 0)

\* C7: the list process_inputs builds keeps the length and order of the inputs;
\* an existing entry is pushed to the input folder once and replaced by input
\* folder + '/' + base name, any other entry is passed unchanged with no push;
\* the result is the list joined by spaces.
C7_InputsSubstitutedInOrder ==
    /\ Len(ret) = idx
    /\ Len(ret) <= Len(args.inputs)
    /\ \A i \in 1..Len(ret) :
         IF args.inputs[i] \in existing
         THEN IsRemoteCopy(ret[i], args.inputs[i])
         ELSE ret[i] = args.inputs[i]
    /\ Len(SucceededInputPushes) = Len(ExistingProcessed)
    /\ \A i \in 1..Len(SucceededInputPushes) :
         SucceededInputPushes[i].argv =
            <<<<"adb">>, <<"push">>, ExistingProcessed[i], InputFolderPath>>
    /\ inputsArg # Unset =>
         /\ Len(ret) = Len(args.inputs)
         /\ inputsArg = Join(ret, " ")

\* ---- C9
TestFolderPath == args.device_path \o <<"/", "test">>
ExpectedCommands ==
    <<  <<<<"adb">>, <<"shell">>, <<"mkdir">>, <<"-p">>, TestFolderPath>>,
        <<<<"adb">>, <<"shell">>, <<"mkdir">>, <<"-p">>, InputFolderPath>>,
        <<<<"adb">>, <<"push">>, args.source, TestFolderPath>>  >>
    \o [i \in 1..Len(SelectSeq(args.inputs, LAMBDA p : p \in existing)) |->
           Split(<<"adb", " ", "push", " ">>
                 \o SelectSeq(args.inputs, LAMBDA p : p \in existing)[i]
                 \o <<" ">> \o InputFolderPath)]
    \o << RemoteCommand >>

\* C9: the adb commands are issued in the order mkdir test, mkdir input, push
\* binary, push command of each existing input, remote run; a command is issued only
\* after every earlier one returned 0, and after a non-zero status nothing
\* more is issued, no output is printed and the exit status is not the test's.
C9_OrderedAndAbortsOnFailure ==
    /\ Len(adbLog) <= Len(ExpectedCommands)
    /\ \A i \in 1..Len(adbLog) : adbLog[i].argv = ExpectedCommands[i]
    /\ \A i \in 1..(Len(adbLog) - 1) : adbLog[i].status = 0
    /\ (adbLog # <<>> /\ adbLog[Len(adbLog)].status # 0) <=> rpc = "aborted"
    /\ rpc = "aborted" => /\ output = Unset
                          /\ printed = Unset
                          /\ rexit = 1
    /\ output # Unset => Len(adbLog) = Len(ExpectedCommands)

C9_Witness ==
    /\ rpc = "aborted"
    /\ Len(adbLog) = 4
    /\ IsInputPush(adbLog[4])
    /\ Len(args.inputs) = 2

\* ---- C8
LastLine(text) == splitlines(text)[Len(splitlines(text))]

\* C8: parse_output prints all lines but the last, joined by newlines, and the
\* exit status is the integer of the last line; when the last line is no
\* integer (or there is no line) the run ends with an error, status not 0.
C8_PrintsAllButLastExitsWithLast ==
    rpc \in {"done", "raised"} =>
        /\ printed = Join(SubSeq(splitlines(output), 1, Len(splitlines(output)) - 1), "\n")
        /\ IF splitlines(output) # <<>> /\ IsInt(LastLine(output))
           THEN rpc = "done" /\ rexit = int(LastLine(output))
           ELSE rpc = "raised" /\ rexit # 0
        /\ output = <<"a", "\n", "a", "0">> => rpc = "raised" /\ printed = <<"a">>
        /\ output = <<"a", "\n", "1", "0">> => rexit = 10 /\ printed = <<"a">>
        /\ output = <<"a", "\n", "\n", "0">> => rexit = 0 /\ printed = <<"a", "\n">>
        /\ output = <<"0", "\n">> => rexit = 0 /\ printed = <<>>
        /\ output = <<"-", "1">> => rexit = 0 - 1 /\ printed = <<>>

C8_Witness ==
    /\ rpc = "done"
    /\ output = <<"a", "\n", "a", "\n", "0">>
    /\ printed = <<"a", "\n", "a">>
    /\ rexit = 0

\* ------------------------------------------------------------ specifications
InitAuth == AuthInit /\ RunnerIdle
InitRunner == RunnerInit /\ AuthIdle
InitParse == ParseInit /\ AuthIdle
ParseNext == parse_output

SpecAuth == InitAuth /\ [][AuthNext]_vars
SpecRunner == InitRunner /\ [][RunnerNext]_vars
SpecParse == InitParse /\ [][ParseNext]_vars

====
